---- MODULE Spec2Model ----
(***************************************************************************)
(* QueryClip backend (src/main.py): the LLM rate limiter and the video     *)
(* history store, as state machines.                                       *)
(*                                                                         *)
(* Time is counted in tenths of a second, so that the limiter's 0.1 s      *)
(* buffer is the integer 1 and its 60 s window is 600.                     *)
(***************************************************************************)
EXTENDS Integers, Sequences, FiniteSets, TLC

(***************************************************************************)
(* Bounds of the model.                                                    *)
(***************************************************************************)
NumCallers == 2      \* concurrent requests that use the limiter
MaxTicks == 3        \* the limiter's clock stops after MaxTicks full windows
HistoryCap == 2      \* entries the history keeps: the code's limit of 100
                     \* (main.py:482, main.py:1472), scaled down
MaxStamp == 3        \* the history's clock runs from 1 to MaxStamp
MaxAnswers == 1      \* query answers appended to one entry
KeepPerVideo == 2    \* screenshot files the cleanup keeps per video: the code's
                     \* 50 (main.py:119), scaled down
MaxAgeDays == 2      \* age in days beyond which the cleanup removes a file: the
                     \* code's 7 (main.py:91), scaled down
MaxDay == 4          \* the store's clock runs from day 0 to day MaxDay
SaveCap == 2         \* screenshots a saved document keeps: the code's 50
                     \* (main.py:966), scaled down

(***************************************************************************)
(* Program constants.                                                      *)
(***************************************************************************)
MaxCallsPerMinute == 5   \* RateLimiter(max_calls_per_minute=5)
MaxRetries == 3          \* max_retries = 3 in capture_screenshot
Window == 600            \* 60 s, in tenths of a second
Buffer == 1              \* 0.1 s, in tenths of a second
SubAttempts == 3         \* for attempt in range(3), the wait for the video element
ReloadsAllowed == 2      \* if attempt < 2: the page is reloaded

Callers == 1..NumCallers
NoCaller == 0
TickSteps == {Window \div 2, Window + Buffer}
MaxTime == MaxTicks * (Window + Buffer)

VARIABLES
    clock,      \* time.time(), in tenths of a second
    calls,      \* RateLimiter.calls
    lockHolder, \* RateLimiter.lock: the caller inside `async with`, or NoCaller
    waiters,    \* RateLimiter.lock: callers suspended in acquire(), FIFO
    pc,         \* per caller: "idle", "waiting" (for the lock), "sleeping"
    local,      \* per caller inside wait_if_needed: its local `now`, the
                \* len(self.calls) its check found (seen), self.calls[0] at that
                \* check (oldest, -1: list empty) and when its asyncio.sleep
                \* ends (wake, -1: it does not sleep); NoLocal outside
    lastReturn, \* the locals of the latest wait_if_needed that returned, and
                \* the time it returned at (at)
    admits      \* the times of the latest MaxCallsPerMinute + 1 returns

limiterVars == <<clock, calls, lockHolder, waiters, pc, local, lastReturn, admits>>

VARIABLES
    history,    \* the JSON array in HISTORY_FILE (data/history.json)
    hclock,     \* datetime.now().isoformat(), as its rank among the timestamps
    lastOp      \* the latest request: its endpoint (op), its video id, whether
                \* the upstream call (metadata API, LLM) succeeded (ok), the
                \* response status, the title that id had in the history before
                \* it (old), the title it brought (title) and the lastAccessedAt
                \* of the entry it made the history lose besides the one it
                \* names (cut)

historyVars == <<history, hclock, lastOp>>

VARIABLES
    cap,        \* the capture_screenshot request in progress: where it is (pc),
                \* current_try, generate_caption (gen), the transcript context
                \* (ctx), the failures of its attempts so far (errs) and the
                \* asyncio.sleep(2) pauses it has made (pauses)
    resp        \* the latest response of an LLM endpoint or of a capture

endpointVars == <<cap, resp>>

VARIABLES
    files,      \* data/screenshots: file name -> [bytes, mtime]
    shotsDir,   \* whether data/screenshots exists
    stateFile,  \* data/app_state.json: the document in it, or NoFile
    today,      \* datetime.now(), in days
    lastStore   \* the latest request to the state endpoints, to the cleanup or
                \* to the capture's file write, and its response

storeVars == <<files, shotsDir, stateFile, today, lastStore>>

VARIABLES
    rpc,        \* extract_transcript: "idle", "running" (in the loop over the
                \* methods) or "returned"
    outcomes,   \* what each of the four methods does when it is invoked
    invoked,    \* the methods invoked so far by the running call, in order
    result      \* the value the latest call returned

retrieverVars == <<rpc, outcomes, invoked, result>>

VARIABLES
    export      \* the save_video_to_notion call in progress or just made: where
                \* it is (pc), which service module runs it, the database
                \* schema it fetched, the optional fields supplied, whether it
                \* posted (sent), the properties of its payload, the answer to
                \* the POST (reply), the dict it returned (outcome) and the
                \* status save_to_notion answered with (http)

notionVars == <<export>>

VARIABLES
    wait        \* the wait for the video element inside one capture attempt:
                \* where it is (pc), the loop index (attempt), the page
                \* reloads made and how many of them failed, the diagnostic
                \* screenshot (diag) and the video and time captured

waitVars == <<wait>>

VARIABLES
    reply       \* the latest response of a request whose side effect (history
                \* update, clean-up) failed: endpoint, status, payload

sideVars == <<reply>>

VARIABLES
    reqs,       \* the history requests submitted together: what each asks for
                \* and whether its handler has run
    seen        \* the history file as it was before the latest handler ran

raceVars == <<reqs, seen>>

VARIABLES
    call        \* per request to an LLM endpoint: where it is (pc), the
                \* endpoint (op), what it has done so far, in order (events:
                \* "acquired", the limiter's wait returned; "llm", the LLM request
                \* was issued), and the status it answered with

callVars == <<call>>

moreVars == <<notionVars, waitVars, sideVars, raceVars, callVars>>

laterVars == <<endpointVars, storeVars, retrieverVars, moreVars>>

vars == <<limiterVars, historyVars, laterVars>>

(***************************************************************************)
(* RateLimiter.wait_if_needed                                              *)
(***************************************************************************)
\* self.calls = [t for t in self.calls if now - t < 60]
Prune(cs, now) == SelectSeq(cs, LAMBDA t : now - t < Window)

WaitTimeNoBuffer(cs, now) == Window - (now - cs[1])

\* wait_time = 60 - (now - self.calls[0]) + 0.1
WaitTime(cs, now) == Window - (now - cs[1]) + Buffer

\* the timestamp self.calls.append(now) records: the local `now`, read before
\* any sleep
Recorded(now, current) == now

LockIgnored == TRUE

\* asyncio.Lock.acquire() returns at once iff the lock is free and nobody waits
LockFree == lockHolder = NoCaller /\ waiters = <<>>

NoLocal == [now |-> -1, seen |-> -1, oldest |-> -1, wake |-> -1]

\* wait_if_needed returns to the caller whose locals are loc.
Admit(loc) ==
    /\ lastReturn' = [now |-> loc.now, seen |-> loc.seen, oldest |-> loc.oldest,
                      wake |-> loc.wake, at |-> clock]
    /\ admits' = LET a == Append(admits, clock)
                 IN  IF Len(a) > MaxCallsPerMinute + 1 THEN Tail(a) ELSE a

\* The body of `async with self.lock` up to its first suspension point, run by
\* caller c, which holds the lock from here on.
CheckBody(c) ==
    LET now == clock
        kept == Prune(calls, now)
        loc == [now |-> now, seen |-> Len(kept),
                oldest |-> IF kept = <<>> THEN -1 ELSE kept[1],
                wake |-> IF Len(kept) >= MaxCallsPerMinute
                         THEN now + WaitTime(kept, now) ELSE -1]
    IN  IF Len(kept) >= MaxCallsPerMinute
        THEN \* await asyncio.sleep(wait_time), the lock held
             /\ calls' = kept
             /\ local' = [local EXCEPT ![c] = loc]
             /\ pc' = [pc EXCEPT ![c] = "sleeping"]
             /\ lockHolder' = c
             /\ UNCHANGED <<lastReturn, admits>>
        ELSE \* self.calls.append(now); the lock is released; return
             /\ calls' = Append(kept, Recorded(now, clock))
             /\ local' = [local EXCEPT ![c] = NoLocal]
             /\ pc' = [pc EXCEPT ![c] = "idle"]
             /\ lockHolder' = NoCaller
             /\ Admit(loc)

\* A request calls wait_if_needed: it takes the free lock and runs the body, or
\* it is suspended in the lock's queue.
Call(c) ==
    /\ pc[c] = "idle"
    /\ UNCHANGED <<clock, historyVars, laterVars>>
    /\ IF LockFree
       THEN CheckBody(c) /\ UNCHANGED waiters
       ELSE /\ pc' = [pc EXCEPT ![c] = "waiting"]
            /\ waiters' = Append(waiters, c)
            /\ UNCHANGED <<calls, lockHolder, local, lastReturn, admits>>

\* The released lock wakes its first waiter, which takes it and runs the body.
Grant(c) ==
    /\ pc[c] = "waiting"
    /\ lockHolder = NoCaller
    /\ waiters # <<>> /\ Head(waiters) = c
    /\ waiters' = Tail(waiters)
    /\ UNCHANGED <<clock, historyVars, laterVars>>
    /\ CheckBody(c)

\* asyncio.sleep is over: self.calls.append(now), the lock is released, return.
Wake(c) ==
    /\ pc[c] = "sleeping"
    /\ clock >= local[c].wake
    /\ calls' = Append(calls, Recorded(local[c].now, clock))
    /\ lockHolder' = NoCaller
    /\ pc' = [pc EXCEPT ![c] = "idle"]
    /\ local' = [local EXCEPT ![c] = NoLocal]
    /\ Admit(local[c])
    /\ UNCHANGED <<clock, waiters, historyVars, laterVars>>

\* Time passes.
Tick ==
    \E d \in TickSteps :
        /\ clock + d <= MaxTime
        /\ clock' = clock + d
        /\ UNCHANGED <<calls, lockHolder, waiters, pc, local, lastReturn, admits,
                       historyVars, laterVars>>

LimiterInit ==
    /\ clock = 0
    /\ calls = <<>>
    /\ lockHolder = NoCaller
    /\ waiters = <<>>
    /\ pc = [c \in Callers |-> "idle"]
    /\ local = [c \in Callers |-> NoLocal]
    /\ lastReturn = [now |-> -1, seen |-> -1, oldest |-> -1, wake |-> -1, at |-> -1]
    /\ admits = <<>>

LimiterNext ==
    \/ \E c \in Callers : Call(c)
    \/ \E c \in Callers : Grant(c)
    \/ \E c \in Callers : Wake(c)
    \/ Tick

(***************************************************************************)
(* The video history (data/history.json).                                  *)
(*                                                                         *)
(* An entry is modelled by its fields videoId, title, lastAccessedAt,       *)
(* transcript and queryAnswers; the fields that the handlers only copy     *)
(* (thumbnailUrl, transcriptAnalysis, notes, tags, ...) are left out.      *)
(* A lastAccessedAt string is modelled by its rank in string order, 0 for  *)
(* the empty string; a None or empty text by NoText; a missing             *)
(* queryAnswers list by the empty list.                                    *)
(***************************************************************************)
VideoIds == 1..(HistoryCap + 1)
Titles == {"t1", "t2"}
NoText == "none"
Texts == {"a", "b"}
Prompts == {"q"}
NoStamp == 0
Stamps == 1..MaxStamp

\* The request bodies of POST /api/video-history (VideoHistoryItem): the
\* client sends no lastAccessedAt or an old one, the transcript "b" or none,
\* and no queryAnswers.
Items ==
    [videoId : VideoIds, title : Titles, lastAccessedAt : {NoStamp, 1},
     transcript : {NoText, "b"}, queryAnswers : {<<>>}]

\* The transcripts POST /api/analyze-transcript is called with.
AnalyzedTexts == {"a"}

\* next((i for i, x in enumerate(history) if x.get('videoId') == video_id), None),
\* 0 for None
RECURSIVE FindFrom(_, _, _)
FindFrom(h, v, i) ==
    IF i > Len(h) THEN 0
    ELSE IF h[i].videoId = v THEN i
    ELSE FindFrom(h, v, i + 1)

AlwaysNone(h, v) == 0

ExistingIndex(h, v) == FindFrom(h, v, 1)

\* history.sort(key=lambda x: x.get('lastAccessedAt', ''), reverse=True): a stable
\* sort, entries with equal keys keep their order
RECURSIVE InsertDesc(_, _)
InsertDesc(s, x) ==
    IF s = <<>> THEN <<x>>
    ELSE IF Head(s).lastAccessedAt >= x.lastAccessedAt
         THEN <<Head(s)>> \o InsertDesc(Tail(s), x)
         ELSE <<x>> \o s

RECURSIVE SortDesc(_)
SortDesc(h) ==
    IF h = <<>> THEN <<>>
    ELSE InsertDesc(SortDesc(SubSeq(h, 1, Len(h) - 1)), h[Len(h)])

NoLimit(h) == h

\* if len(history) > 100: history = history[:100]
Limit(h) == IF Len(h) > HistoryCap THEN SubSeq(h, 1, HistoryCap) ELSE h

\* The handler's status when an HTTPException(status) is raised inside a try
\* whose only handler is `except Exception`: HTTPException is an Exception, so
\* the handler catches it and raises HTTPException(500) instead.
CaughtByExceptException(status) == 500

\* The handler's status when an HTTPException(status) is raised inside a try that
\* has `except HTTPException: raise` before `except Exception`.
Reraised(status) == status

NoTitle == "none"

Ids(h) == {h[i].videoId : i \in 1..Len(h)}

\* What lastOp keeps of a request for video id v that took the history from h
\* to h2; `put` is the entry the request wrote for v (<<>>: it wrote none).
Response(op, v, ok, status, put, h, h2) ==
    LET i == FindFrom(h, v, 1)
        gone == {h[k].lastAccessedAt :
                    k \in {n \in 1..Len(h) : h[n].videoId # v /\ h[n].videoId \notin Ids(h2)}}
                \cup (IF put # <<>> /\ v \notin Ids(h2) THEN {put[1].lastAccessedAt} ELSE {})
    IN  [op |-> op, id |-> v, ok |-> ok, status |-> status,
         old |-> IF i = 0 THEN NoTitle ELSE h[i].title,
         title |-> IF put = <<>> THEN NoTitle ELSE put[1].title,
         cut |-> IF gone = {} THEN NoStamp
                 ELSE CHOOSE m \in gone : \A x \in gone : x <= m]

\* if not item.lastAccessedAt: item.lastAccessedAt = datetime.now().isoformat()
Stamped(item, now) ==
    IF item.lastAccessedAt = NoStamp THEN [item EXCEPT !.lastAccessedAt = now] ELSE item

\* POST /api/video-history
AddOrUpdateResult(h, item, now) ==
    LET it == Stamped(item, now)
        i == ExistingIndex(h, it.videoId)
        h1 == IF i # 0 THEN [h EXCEPT ![i] = it] ELSE Append(h, it)
    IN  Limit(SortDesc(h1))

AddOrUpdate(item) ==
    /\ history' = AddOrUpdateResult(history, item, hclock)
    /\ lastOp' = Response("add", item.videoId, TRUE, 200, <<Stamped(item, hclock)>>,
                          history, history')
    /\ UNCHANGED <<hclock, limiterVars, laterVars>>

DeleteLast(h, v) ==
    LET i == FindFrom(h, v, 1)
    IN  IF i = 0 THEN h ELSE SubSeq(h, 1, Len(h) - 1)

\* history = [item for item in history if item.get('videoId') != video_id]
DeleteFilter(h, v) == SelectSeq(h, LAMBDA x : x.videoId # v)

\* DELETE /api/video-history/{video_id}. HISTORY_FILE is created at start-up
\* (main.py:169) and nothing removes it, so the "History not found" branch is
\* not taken.
DeleteItem(v) ==
    LET h1 == DeleteFilter(history, v)
    IN  /\ IF Len(h1) = Len(history)
           THEN /\ history' = history
                /\ lastOp' = Response("delete", v, TRUE, Reraised(404), <<>>,
                                      history, history)
           ELSE /\ history' = h1
                /\ lastOp' = Response("delete", v, TRUE, 200, <<>>, history, h1)
        /\ UNCHANGED <<hclock, limiterVars, laterVars>>

\* transcript_retriever.get_transcript(video_id) in get_video_information:
\* EnhancedTranscriptRetriever has no method get_transcript, the AttributeError
\* is caught and plain_transcript = None.
PlainTranscript(v) == NoText

\* The history upsert of GET /api/video-info/{video_id} (main.py:1441-1477).
VideoInfoUpsert(h, v, title, plain, now) ==
    LET i == ExistingIndex(h, v)
        new == [videoId |-> v, title |-> title, lastAccessedAt |-> now,
                transcript |-> plain, queryAnswers |-> <<>>]
        upd == [h[i] EXCEPT !.title = title,
                            !.lastAccessedAt = now,
                            !.transcript =
                                IF h[i].transcript = NoText /\ plain # NoText
                                THEN plain ELSE h[i].transcript]
        h1 == IF i # 0 THEN [h EXCEPT ![i] = upd] ELSE Append(h, new)
    IN  Limit(SortDesc(h1))

\* GET /api/video-info/{video_id}; found: get_video_info returned a VideoInfo
\* (with that title) and not None.
VideoInfo(v, found, title) ==
    /\ IF found
       THEN /\ history' = VideoInfoUpsert(history, v, title, PlainTranscript(v), hclock)
            /\ lastOp' = Response("video_info", v, TRUE, 200,
                                  <<[title |-> title, lastAccessedAt |-> hclock]>>,
                                  history, history')
       ELSE /\ history' = history
            /\ lastOp' = Response("video_info", v, FALSE, CaughtByExceptException(404),
                                  <<>>, history, history)
    /\ UNCHANGED <<hclock, limiterVars, laterVars>>

\* update_video_history_content(video_id, content_type, content): no sort, no
\* limit
UpdateTranscriptAnalysis(h, v, now) ==
    LET i == ExistingIndex(h, v)
    IN  IF i = 0 THEN h
        ELSE [h EXCEPT ![i] = [h[i] EXCEPT !.lastAccessedAt = now]]

UpdateTranscript(h, v, content, now) ==
    LET i == ExistingIndex(h, v)
    IN  IF i = 0 THEN h
        ELSE [h EXCEPT ![i] = [h[i] EXCEPT !.transcript = content,
                                           !.lastAccessedAt = now]]

\* POST /api/analyze-transcript with a videoId; ok: the LLM call succeeded.
\* request.transcript is a str, so plain_transcript is request.transcript.
AnalyzeTranscript(v, transcript, ok) ==
    /\ IF ok
       THEN /\ history' = UpdateTranscript(
                              UpdateTranscriptAnalysis(history, v, hclock),
                              v, transcript, hclock)
            /\ lastOp' = Response("analyze", v, TRUE, 200, <<>>, history, history')
       ELSE /\ history' = history
            /\ lastOp' = Response("analyze", v, FALSE, 500, <<>>, history, history)
    /\ UNCHANGED <<hclock, limiterVars, laterVars>>

\* The history write of POST /api/query-transcript (main.py:1351-1393), after
\* the LLM answered.
QueryAppend(h, v, prompt, now) ==
    LET i == ExistingIndex(h, v)
    IN  IF i = 0 THEN h
        ELSE [h EXCEPT ![i] = [h[i] EXCEPT !.queryAnswers = Append(@, prompt),
                                           !.lastAccessedAt = now]]

\* POST /api/query-transcript with a transcript, a prompt and a videoId; ok: the
\* LLM call succeeded. (The handler's wait_if_needed is SpecLimiter's.)
QueryTranscript(v, prompt, ok) ==
    /\ \A i \in 1..Len(history) :
          history[i].videoId = v => Len(history[i].queryAnswers) < MaxAnswers
    /\ IF ok
       THEN /\ history' = QueryAppend(history, v, prompt, hclock)
            /\ lastOp' = Response("query", v, TRUE, 200, <<>>, history, history')
       ELSE /\ history' = history
            /\ lastOp' = Response("query", v, FALSE, 500, <<>>, history, history)
    /\ UNCHANGED <<hclock, limiterVars, laterVars>>

\* datetime.now() moves on.
HistoryTick ==
    /\ hclock < MaxStamp
    /\ hclock' = hclock + 1
    /\ UNCHANGED <<history, lastOp, limiterVars, laterVars>>

\* main.py:168-171: the history file starts as the empty array.
HistoryInit ==
    /\ history = <<>>
    /\ hclock = 1
    /\ lastOp = [op |-> "none", id |-> 0, ok |-> TRUE, status |-> 200,
                 old |-> NoTitle, title |-> NoTitle, cut |-> NoStamp]

HistoryNext ==
    \/ \E item \in Items : AddOrUpdate(item)
    \/ \E v \in VideoIds : DeleteItem(v)
    \/ \E v \in VideoIds, found \in BOOLEAN, title \in Titles :
           VideoInfo(v, found, title)
    \/ \E v \in VideoIds, t \in AnalyzedTexts, ok \in BOOLEAN :
           AnalyzeTranscript(v, t, ok)
    \/ \E v \in VideoIds, q \in Prompts, ok \in BOOLEAN : QueryTranscript(v, q, ok)
    \/ HistoryTick

(***************************************************************************)
(* The LLM endpoints and the screenshot capture: what a request does        *)
(* before it answers.                                                      *)
(*                                                                         *)
(* A text of a request body is modelled by its kind: "empty" (the empty    *)
(* string or list), "blank" (white space only) or "text". The bodies have  *)
(* passed the validation of their pydantic models.                         *)
(***************************************************************************)
ContextKinds == {"empty", "blank", "text"}
ListKinds == {"empty", "text"}
FailureKinds == {"navigation", "no_video", "screenshot"}

\* str.strip()
Strip(t) == IF t = "blank" THEN "empty" ELSE t

\* `not t` for a string or a list
Falsy(t) == t = "empty"

\* The response of a request that has done nothing yet.
NoResp ==
    [op |-> "none", direct |-> TRUE, status |-> 200, invalid |-> FALSE,
     acquired |-> FALSE, llm |-> FALSE, wrote |-> FALSE, context |-> "none",
     gen |-> TRUE, image |-> FALSE, caption |-> "none", error |-> "none",
     attempts |-> 0, errs |-> <<>>, pauses |-> 0, detail |-> "none"]

\* POST /api/query-transcript; hasVideo: the body names a video of the history,
\* llmOk: anthropic.messages.create answers. The 400 is raised inside the outer
\* try, whose only handler is `except Exception`.
QueryRequest(transcript, prompt, hasVideo, llmOk) ==
    /\ resp' =
         IF Falsy(transcript) \/ Falsy(prompt)
         THEN [NoResp EXCEPT !.op = "query", !.invalid = TRUE,
                             !.status = CaughtByExceptException(400)]
         ELSE IF llmOk
         THEN [NoResp EXCEPT !.op = "query", !.acquired = TRUE, !.llm = TRUE,
                             !.wrote = hasVideo, !.context = "text"]
         ELSE [NoResp EXCEPT !.op = "query", !.acquired = TRUE, !.llm = TRUE,
                             !.context = "text",
                             !.status = CaughtByExceptException(500)]
    /\ UNCHANGED <<cap, limiterVars, historyVars, storeVars, retrieverVars, moreVars>>

\* The dict generate_caption_api returns, and what it did; key: ANTHROPIC_API_KEY
\* is set.
CaptionResult(ctx, key, llmOk) ==
    LET text == IF Falsy(ctx) THEN "empty" ELSE Strip(ctx)
        context == IF Falsy(text) THEN "placeholder" ELSE "text"
    IN  IF ~key
        THEN [caption |-> "failed", error |-> "no_key", acquired |-> FALSE,
              llm |-> FALSE, context |-> context]
        ELSE IF llmOk
        THEN [caption |-> "generated", error |-> "none", acquired |-> TRUE,
              llm |-> TRUE, context |-> context]
        ELSE [caption |-> "failed", error |-> "llm_error", acquired |-> TRUE,
              llm |-> TRUE, context |-> context]

\* POST /api/generate-caption
GenerateCaption(ctx, key, llmOk) ==
    /\ resp' = LET r == CaptionResult(ctx, key, llmOk)
               IN  [NoResp EXCEPT !.op = "caption", !.invalid = Falsy(Strip(ctx)),
                                  !.acquired = r.acquired, !.llm = r.llm,
                                  !.context = r.context, !.caption = r.caption,
                                  !.error = r.error]
    /\ UNCHANGED <<cap, limiterVars, historyVars, storeVars, retrieverVars, moreVars>>

\* POST /api/generate-structured-caption. The 400 is raised inside the outer
\* try, whose only handler is `except Exception`.
GenerateStructuredCaption(ctx, llmOk) ==
    /\ resp' =
         IF Falsy(Strip(ctx))
         THEN [NoResp EXCEPT !.op = "structured", !.invalid = TRUE,
                             !.status = CaughtByExceptException(400)]
         ELSE IF llmOk
         THEN [NoResp EXCEPT !.op = "structured", !.acquired = TRUE, !.llm = TRUE,
                             !.context = "text", !.caption = "generated"]
         ELSE [NoResp EXCEPT !.op = "structured", !.acquired = TRUE, !.llm = TRUE,
                             !.context = "text",
                             !.status = CaughtByExceptException(500)]
    /\ UNCHANGED <<cap, limiterVars, historyVars, storeVars, retrieverVars, moreVars>>

IdleCap ==
    [pc |-> "idle", try |-> 0, gen |-> TRUE, ctx |-> "empty", errs |-> <<>>,
     pauses |-> 0]

\* POST /api/capture-screenshot, up to the first attempt: current_try = 0, the
\* loop is entered and current_try += 1.
CaptureStart(gen, ctx) ==
    /\ cap.pc = "idle"
    /\ cap' = [pc |-> "attempt", try |-> 1, gen |-> gen, ctx |-> ctx,
               errs |-> <<>>, pauses |-> 0]
    /\ UNCHANGED <<resp, limiterVars, historyVars, storeVars, retrieverVars, moreVars>>

NeverExhausted(try) == FALSE

\* if current_try >= max_retries
Exhausted(try) == try >= MaxRetries

\* An attempt fails (the navigation, the wait for the video element or the
\* screenshot raises): `except Exception` of the loop body.
AttemptFails(kind) ==
    /\ cap.pc = "attempt"
    /\ IF Exhausted(cap.try)
       THEN /\ resp' = [NoResp EXCEPT !.op = "capture", !.direct = FALSE,
                                      !.status = 500, !.gen = cap.gen,
                                      !.attempts = cap.try,
                                      !.errs = Append(cap.errs, kind),
                                      !.pauses = cap.pauses, !.detail = kind]
            /\ cap' = IdleCap
       ELSE /\ cap' = [cap EXCEPT !.pc = "pause", !.errs = Append(@, kind)]
            /\ UNCHANGED resp
    /\ UNCHANGED <<limiterVars, historyVars, storeVars, retrieverVars, moreVars>>

\* asyncio.sleep(2) is over: `while current_try < max_retries` is evaluated
\* again; when it is false the function falls off its end and returns None.
PauseEnds ==
    /\ cap.pc = "pause"
    /\ IF cap.try < MaxRetries
       THEN /\ cap' = [cap EXCEPT !.pc = "attempt", !.try = @ + 1,
                                  !.pauses = @ + 1]
            /\ UNCHANGED resp
       ELSE /\ resp' = [NoResp EXCEPT !.op = "capture", !.direct = FALSE,
                                      !.gen = cap.gen, !.attempts = cap.try,
                                      !.errs = cap.errs,
                                      !.pauses = cap.pauses + 1]
            /\ cap' = IdleCap
    /\ UNCHANGED <<limiterVars, historyVars, storeVars, retrieverVars, moreVars>>

NeverSkip(gen) == FALSE

\* if not generate_caption: return result
SkipCaption(gen) == ~gen

\* An attempt takes the screenshot and writes the image file (the file is
\* CaptureWrite's), result = {image_data, timestamp}.
AttemptCaptures ==
    /\ cap.pc = "attempt"
    /\ IF SkipCaption(cap.gen)
       THEN /\ resp' = [NoResp EXCEPT !.op = "capture", !.direct = FALSE,
                                      !.gen = cap.gen, !.image = TRUE,
                                      !.attempts = cap.try, !.errs = cap.errs,
                                      !.pauses = cap.pauses]
            /\ cap' = IdleCap
       ELSE /\ cap' = [cap EXCEPT !.pc = "caption"]
            /\ UNCHANGED resp
    /\ UNCHANGED <<limiterVars, historyVars, storeVars, retrieverVars, moreVars>>

\* caption_result = await generate_caption_api(caption_request); return result
CaptionStep(key, llmOk) ==
    /\ cap.pc = "caption"
    /\ resp' = LET r == CaptionResult(cap.ctx, key, llmOk)
               IN  [NoResp EXCEPT !.op = "capture", !.direct = FALSE,
                                  !.gen = cap.gen, !.image = TRUE,
                                  !.invalid = Falsy(Strip(cap.ctx)),
                                  !.acquired = r.acquired, !.llm = r.llm,
                                  !.context = r.context, !.caption = r.caption,
                                  !.error = r.error, !.attempts = cap.try,
                                  !.errs = cap.errs, !.pauses = cap.pauses]
    /\ cap' = IdleCap
    /\ UNCHANGED <<limiterVars, historyVars, storeVars, retrieverVars, moreVars>>

EndpointsInit ==
    /\ cap = IdleCap
    /\ resp = NoResp

\* The steps of a capture request that is under way.
CaptureStep ==
    \/ \E kind \in FailureKinds : AttemptFails(kind)
    \/ PauseEnds
    \/ AttemptCaptures
    \/ \E key \in BOOLEAN, llmOk \in BOOLEAN : CaptionStep(key, llmOk)

EndpointsNext ==
    \/ \E t \in ListKinds, q \in ContextKinds, hasVideo \in BOOLEAN, llmOk \in BOOLEAN :
           QueryRequest(t, q, hasVideo, llmOk)
    \/ \E ctx \in ContextKinds, key \in BOOLEAN, llmOk \in BOOLEAN :
           GenerateCaption(ctx, key, llmOk)
    \/ \E ctx \in ContextKinds, llmOk \in BOOLEAN :
           GenerateStructuredCaption(ctx, llmOk)
    \/ \E gen \in BOOLEAN, ctx \in ContextKinds : CaptureStart(gen, ctx)
    \/ \E kind \in FailureKinds : AttemptFails(kind)
    \/ PauseEnds
    \/ AttemptCaptures
    \/ \E key \in BOOLEAN, llmOk \in BOOLEAN : CaptionStep(key, llmOk)

(***************************************************************************)
(* The screenshots directory (data/screenshots) and the state file         *)
(* (data/app_state.json).                                                  *)
(*                                                                         *)
(* A file name is the sequence of its parts, "_" being a part of its own;  *)
(* a video id is a sequence of parts too, since YouTube ids may contain    *)
(* "_". File contents are one byte long, and base64 is computed on them.   *)
(* Time is counted in days.                                                *)
(***************************************************************************)
CaptureIds == {<<"a">>, <<"a", "_", "b">>}
StateIds == {<<"a">>}
ShotTimes == {10, 15, 20}       \* screenshot timestamps, in tenths of a second
Payloads == {<<77>>, <<200>>}   \* image bytes of the documents saved
CaptureBytes == <<7>>           \* image bytes a capture writes
Others == {"x", "y"}            \* the value of a document's other top-level field

\* str(n) for the integers the model names files with
DigitStr(n) == <<"0", "1", "2", "3", "4", "5", "6", "7", "8", "9">>[n + 1]

\* f"yt_{request.video_id}_{timestamp_str}.webp"
CaptureFileName(id, ts) == <<"yt", "_">> \o id \o <<"_", DigitStr(ts), ".webp">>

\* f"{video_id}_{int(timestamp)}.png", the timestamp in tenths of a second
StateFileName(id, timestamp) == id \o <<"_", DigitStr(timestamp \div 10), ".png">>

\* The capture requests that write a file: every video id at timestamp 1, the
\* id "a" at KeepPerVideo + 1 timestamps.
CaptureNames ==
    [id : CaptureIds, ts : {1}] \cup [id : {<<"a">>}, ts : 1..(KeepPerVideo + 1)]

\* SCREENSHOTS_DIR.glob("yt_*")
GlobYt(name) == Len(name) >= 2 /\ name[1] = "yt" /\ name[2] = "_"

\* The length of the longest run of parts other than "_" that starts at name[i].
RECURSIVE RunLength(_, _)
RunLength(name, i) ==
    IF i > Len(name) \/ name[i] = "_" THEN 0 ELSE 1 + RunLength(name, i + 1)

\* re.match(r"yt_([^_]+)_", file_path.name).group(1), <<>> when there is no match
ParseVideoId(name) ==
    LET n == RunLength(name, 3)
    IN  IF GlobYt(name) /\ n >= 1 /\ 3 + n <= Len(name) /\ name[3 + n] = "_"
        THEN SubSeq(name, 3, 2 + n)
        ELSE <<>>

\* open(file_path, "wb").write(bytes) on day `day`
WriteFile(fs, name, bytes, day) ==
    [n \in DOMAIN fs \cup {name} |->
        IF n = name THEN [bytes |-> bytes, mtime |-> day] ELSE fs[n]]

\* The directory without the files of `gone` (file_path.unlink() for each).
Unlink(fs, gone) == [n \in DOMAIN fs \ gone |-> fs[n]]

NoFiles == <<>>

\* base64 of one byte: two sextets and two "=" (64)
B64Encode(bytes) == <<bytes[1] \div 4, (bytes[1] % 4) * 16, 64, 64>>

B64Decode(text) == <<text[1] * 4 + text[2] \div 16>>

\* f"data:image/{mime};base64,{base64 of bytes}"
DataImage(mime, bytes) ==
    [kind |-> "data", mime |-> mime, b64 |-> B64Encode(bytes), name |-> <<>>]

\* a screenshot's image that is a file name
FileImage(name) == [kind |-> "file", mime |-> "none", b64 |-> <<>>, name |-> name]

Shots ==
    [videoId : StateIds, timestamp : ShotTimes,
     image : {DataImage("png", b) : b \in Payloads}]

SeqsUpTo(S, n) == UNION {[1..k -> S] : k \in 0..n}

\* {}
EmptyDoc == [keys |-> {}, shots |-> <<>>, other |-> "none"]

\* The documents POST /api/state/save is called with.
Docs ==
    [keys : {{"screenshots", "other"}}, shots : SeqsUpTo(Shots, SaveCap + 1),
     other : Others]

NoState == [exists |-> FALSE, doc |-> EmptyDoc]

FirstN(s, n) == IF Len(s) > n THEN SubSeq(s, 1, n) ELSE s

\* state["screenshots"][-50:] when len(state["screenshots"]) > 50
LastN(s, n) == IF Len(s) > n THEN SubSeq(s, Len(s) - n + 1, Len(s)) ELSE s

\* The loop of save_state over persisted_state["screenshots"]: each data URI
\* is decoded, written to its file and replaced by the file's name.
RECURSIVE SaveShots(_, _, _)
SaveShots(shots, fs, day) ==
    IF shots = <<>> THEN [shots |-> <<>>, files |-> fs]
    ELSE LET shot == Head(shots)
             name == StateFileName(shot.videoId, shot.timestamp)
             data == shot.image.kind = "data"
             fs1 == IF data
                    THEN WriteFile(fs, name, B64Decode(shot.image.b64), day)
                    ELSE fs
             shot1 == IF data THEN [shot EXCEPT !.image = FileImage(name)] ELSE shot
             rest == SaveShots(Tail(shots), fs1, day)
         IN  [shots |-> <<shot1>> \o rest.shots, files |-> rest.files]

\* What GET /api/state/load answers when the state file is sf and the
\* directory holds fs: no state, or the document with every image that names
\* an existing file replaced by that file's content as a png data URI.
LoadResult(sf, fs) ==
    IF ~sf.exists THEN [null |-> TRUE, doc |-> EmptyDoc]
    ELSE [null |-> FALSE,
          doc |-> [sf.doc EXCEPT !.shots =
                     [i \in 1..Len(sf.doc.shots) |->
                        LET shot == sf.doc.shots[i]
                        IN  IF shot.image.kind = "file" /\ shot.image.name \in DOMAIN fs
                            THEN [shot EXCEPT !.image =
                                     DataImage("png", fs[shot.image.name].bytes)]
                            ELSE shot]]]

NoLoad == [null |-> TRUE, doc |-> EmptyDoc]

\* What lastStore keeps of a request.
Stored(op, before, sent, loaded, hadState) ==
    [op |-> op, before |-> before, sent |-> sent, loaded |-> loaded,
     hadState |-> hadState]

\* The file write of capture_screenshot (main.py:794-798) for video n.id at
\* timestamp n.ts; open() fails when the directory is not there.
CaptureWrite(n) ==
    /\ shotsDir
    /\ files' = WriteFile(files, CaptureFileName(n.id, n.ts), CaptureBytes, today)
    /\ lastStore' = Stored("capture", NoFiles, EmptyDoc, NoLoad, stateFile.exists)
    /\ UNCHANGED <<shotsDir, stateFile, today, limiterVars, historyVars,
                   endpointVars, retrieverVars, moreVars>>

\* The files cleanup_old_screenshots groups under the parsed video id `pid`:
\* those that match, parse to pid and are not older than the threshold.
Group(fs, pid, threshold) ==
    {n \in DOMAIN fs : GlobYt(n) /\ ParseVideoId(n) = pid /\ fs[n].mtime >= threshold}

\* sorted(files, key=mtime, reverse=True)[:50] for a group of more than 50: a set
\* of 50 files none of which is older than a file left out (files of equal
\* mtime come in the directory's order, which is any order).
Newest(fs, group, keep) ==
    /\ keep \subseteq group
    /\ Cardinality(keep) = KeepPerVideo
    /\ \A k \in keep, g \in group \ keep : fs[k].mtime >= fs[g].mtime

\* cleanup_old_screenshots(): POST /api/cleanup-screenshots, and the first step
\* of capture_screenshot.
Cleanup ==
    LET threshold == today - MaxAgeDays
        matched == {n \in DOMAIN files : GlobYt(n) /\ ParseVideoId(n) # <<>>}
        old == {n \in matched : files[n].mtime < threshold}
        pids == {ParseVideoId(n) : n \in matched \ old}
    IN  /\ \E kept \in SUBSET (matched \ old) :
              /\ \A pid \in pids :
                    LET group == Group(files, pid, threshold)
                    IN  IF Cardinality(group) > KeepPerVideo
                        THEN Newest(files, group, kept \cap group)
                        ELSE kept \cap group = group
              /\ files' = Unlink(files, matched \ kept)
        /\ lastStore' = Stored("cleanup", files, EmptyDoc, NoLoad, stateFile.exists)
        /\ UNCHANGED <<shotsDir, stateFile, today, limiterVars, historyVars,
                       endpointVars, retrieverVars, moreVars>>

\* A day passes.
DayPasses ==
    /\ today < MaxDay
    /\ today' = today + 1
    /\ UNCHANGED <<files, shotsDir, stateFile, lastStore, limiterVars, historyVars,
                   endpointVars, retrieverVars, moreVars>>

\* POST /api/state/save
SaveState(doc) ==
    LET kept == LastN(doc.shots, SaveCap)
        saved == SaveShots(kept, files, today)
    IN  /\ shotsDir' = TRUE
        /\ files' = saved.files
        /\ stateFile' = [exists |-> TRUE, doc |-> [doc EXCEPT !.shots = saved.shots]]
        /\ lastStore' = Stored("save", NoFiles, doc, NoLoad, stateFile.exists)
        /\ UNCHANGED <<today, limiterVars, historyVars, endpointVars, retrieverVars, moreVars>>

\* GET /api/state/load
LoadState ==
    /\ lastStore' = Stored("load", NoFiles, EmptyDoc, LoadResult(stateFile, files),
                           stateFile.exists)
    /\ UNCHANGED <<files, shotsDir, stateFile, today, limiterVars, historyVars,
                   endpointVars, retrieverVars, moreVars>>

SoftKept(sf) == sf

\* json.dump({}, f) into the state file if it exists
SoftCleared(sf) == IF sf.exists THEN [exists |-> TRUE, doc |-> EmptyDoc] ELSE sf

NoMkdir(exists) == exists

\* screenshots_dir.mkdir(exist_ok=True)
Mkdir(exists) == TRUE

\* screenshots_dir.rmdir(): the directory goes if it is empty
Rmdir(exists, fs) == IF DOMAIN fs = {} THEN FALSE ELSE exists

\* DELETE /api/state/clear?eraseFiles=...
ClearState(eraseFiles) ==
    /\ IF eraseFiles
       THEN LET fs1 == IF shotsDir THEN Unlink(files, DOMAIN files) ELSE files
                dir1 == IF shotsDir THEN Rmdir(shotsDir, fs1) ELSE shotsDir
            IN  /\ files' = fs1
                /\ shotsDir' = Mkdir(dir1)
                /\ stateFile' = NoState
                /\ lastStore' = Stored("hard_clear", files, EmptyDoc, NoLoad,
                                       stateFile.exists)
       ELSE /\ stateFile' = SoftCleared(stateFile)
            /\ lastStore' = Stored("soft_clear", NoFiles, EmptyDoc, NoLoad,
                                   stateFile.exists)
            /\ UNCHANGED <<files, shotsDir>>
    /\ UNCHANGED <<today, limiterVars, historyVars, endpointVars, retrieverVars, moreVars>>

\* main.py:156-159: the directories are made at start-up; there is no state
\* file before the first save.
StoreInit ==
    /\ files = NoFiles
    /\ shotsDir = TRUE
    /\ stateFile = NoState
    /\ today = 0
    /\ lastStore = Stored("none", NoFiles, EmptyDoc, NoLoad, FALSE)

\* The one capture the state endpoints are run with.
StateCaptures == {[id |-> <<"a">>, ts |-> 1]}

CleanupNext ==
    \/ \E n \in CaptureNames : CaptureWrite(n)
    \/ Cleanup
    \/ DayPasses

StateNext ==
    \/ \E doc \in Docs : SaveState(doc)
    \/ LoadState
    \/ \E eraseFiles \in BOOLEAN : ClearState(eraseFiles)
    \/ \E n \in StateCaptures : CaptureWrite(n)

(***************************************************************************)
(* EnhancedTranscriptRetriever.extract_transcript                          *)
(* (src/transcript_retriever.py).                                          *)
(***************************************************************************)
Methods == 1..4

\* the 'method' key of the dict each method returns
MethodIds == <<"youtube-transcript-api", "yt-dlp", "youtube-data-api", "whisper-ai">>

\* What a method does when invoked: it builds its transcript dict ("found";
\* "empty" when the dict has no segment, see TranscriptOutcomes), it
\* finds nothing and returns None ("nothing"), its library raises
\* NoTranscriptFound or TranscriptsDisabled ("no_transcript", "disabled") or
\* something else ("error"), which the method catches, or an exception leaves
\* the method ("escapes").
OutcomeKinds == {"found", "nothing", "no_transcript", "disabled", "error", "escapes"}

\* None
NoTranscript == [found |-> FALSE, method |-> "none"]

\* The value method i returns; an exception that leaves it is caught by the
\* loop's `except Exception`, and the loop goes on as after a None.
MethodReturn(i, outcome) ==
    IF outcome \in {"found", "empty"} THEN [found |-> TRUE, method |-> MethodIds[i]]
    ELSE NoTranscript

AlwaysTruthy(r) == TRUE

\* if result:
Truthy(r) == r.found

\* extract_transcript(url) up to its loop; hasId: extract_video_id(url) finds
\* an id. outs: what the methods will do for this video.
ExtractStart(hasId, outs) ==
    /\ rpc # "running"
    /\ outcomes' = outs
    /\ invoked' = <<>>
    /\ IF hasId
       THEN rpc' = "running" /\ result' = [value |-> NoTranscript, hasId |-> TRUE]
       ELSE rpc' = "returned" /\ result' = [value |-> NoTranscript, hasId |-> FALSE]
    /\ UNCHANGED <<limiterVars, historyVars, endpointVars, storeVars, moreVars>>

\* One iteration of `for i, method in enumerate(methods, 1)`.
TryMethod ==
    /\ rpc = "running"
    /\ LET i == Len(invoked) + 1
           r == MethodReturn(i, outcomes[i])
       IN  /\ invoked' = Append(invoked, i)
           /\ IF outcomes[i] # "escapes" /\ Truthy(r)
              THEN rpc' = "returned" /\ result' = [result EXCEPT !.value = r]
              ELSE IF i = Len(MethodIds)
              THEN rpc' = "returned" /\ result' = [result EXCEPT !.value = NoTranscript]
              ELSE UNCHANGED <<rpc, result>>
    /\ UNCHANGED <<outcomes, limiterVars, historyVars, endpointVars, storeVars, moreVars>>

RetrieverInit ==
    /\ rpc = "idle"
    /\ outcomes = [i \in Methods |-> "nothing"]
    /\ invoked = <<>>
    /\ result = [value |-> NoTranscript, hasId |-> FALSE]

RetrieverNext ==
    \/ \E hasId \in BOOLEAN, outs \in [Methods -> OutcomeKinds] : ExtractStart(hasId, outs)
    \/ TryMethod

(***************************************************************************)
(* NotionService.save_video_to_notion (src/notion_service.py, the module   *)
(* main.py imports, and src/notion_service_updated.py) and the             *)
(* save_to_notion endpoint.  Author, Publisher, Transcript, Screenshots,   *)
(* Summary and Key Points are mapped by the same guards as Description and *)
(* are left out.                                                           *)
(***************************************************************************)
Services == {"notion_service", "notion_service_updated"}

PropNames == {"Name", "Title", "URL", "Description", "Notes"}

PropTypes == {"title", "rich_text", "url"}

\* data.get('properties', {}): property name -> declared type.  A Notion
\* database has exactly one property of the type title.
Schemas ==
    { s \in UNION { [names -> PropTypes] : names \in SUBSET PropNames } :
        Cardinality({ p \in DOMAIN s : s[p] = "title" }) = 1 }

NoSchema == [p \in {} |-> "title"]

NoPageId == <<>>

PageIds == {<<"p">>, <<"p", "-", "q">>}

\* The answer to POST /pages: an HTTP response (status, the 'code' of its
\* JSON body, the 'id' of the page) or requests.exceptions.Timeout /
\* ConnectionError.
Http(status, code, id) == [kind |-> "http", status |-> status, code |-> code, id |-> id]

NoReply == [kind |-> "none", status |-> 0, code |-> "none", id |-> NoPageId]

Replies ==
    { Http(s, "none", i) : s \in {200, 201}, i \in PageIds }
    \cup { Http(400, c, NoPageId) : c \in {"validation_error", "invalid_json"} }
    \cup { Http(s, "none", NoPageId) : s \in {401, 403, 404, 500} }
    \cup { [kind |-> k, status |-> 0, code |-> "none", id |-> NoPageId] :
             k \in {"timeout", "connection"} }

AnySchema(schema, name) == TRUE

\* "<name>" in self.database_properties
InSchema(schema, name) == name \in DOMAIN schema

\* self.database_properties["<name>"].get('type')
TypeOf(schema, name) == IF name \in DOMAIN schema THEN schema[name] ELSE "none"

\* title_props = [prop for prop, details in ... if details.get('type') == 'title']
TitleProps(schema) == { p \in DOMAIN schema : schema[p] = "title" }

NoProp == "none"

\* The property the title goes to: "Name" if the schema has a property of that
\* name, else title_props[0], else none (the call returns an error).
TitleTarget(schema) ==
    IF InSchema(schema, "Name") THEN "Name"
    ELSE IF TitleProps(schema) # {} THEN CHOOSE p \in TitleProps(schema) : TRUE
    ELSE NoProp

\* The keys of `properties`; supplied: the optional fields that are truthy.
PayloadNames(schema, supplied) ==
    {TitleTarget(schema)}
    \cup (IF InSchema(schema, "URL") THEN {"URL"} ELSE {})
    \cup { f \in {"Description", "Notes"} :
             /\ f \in supplied
             /\ InSchema(schema, f)
             /\ TypeOf(schema, f) = "rich_text" }

\* The key under which each property's value is encoded.
Encoding(schema, name) ==
    IF name = TitleTarget(schema) THEN "title"
    ELSE IF name = "URL" THEN "url"
    ELSE "rich_text"

Properties(schema, supplied) ==
    [p \in PayloadNames(schema, supplied) |-> Encoding(schema, p)]

NoProperties == [p \in {} |-> "title"]

\* response.json().get('id', '').replace('-', '')
StripHyphens(id) == SelectSeq(id, LAMBDA ch : ch # "-")

\* The dict save_video_to_notion returns: success or error, the reason of the
\* error, what its message carries of the response, the page_url key.
Outcome(kind, reason, carries, pageUrl) ==
    [kind |-> kind, reason |-> reason, carries |-> carries, pageUrl |-> pageUrl]

NoOutcome == Outcome("none", "none", {}, NoPageId)

\* notion_service.py: `if response.status_code != 200` gives the error
\* "Failed to save to Notion: {response.text}", else response.json() is
\* returned as it is; an exception of requests.post reaches
\* `except Exception`, "Failed to save to Notion: {str(e)}".
\* notion_service_updated.py: the if/elif chain on response.status_code and
\* the two except clauses.
Classify(service, r) ==
    IF service = "notion_service"
    THEN IF r.kind # "http" THEN Outcome("error", "generic", {}, NoPageId)
         ELSE IF r.status # 200 THEN Outcome("error", "generic", {"body"}, NoPageId)
         ELSE Outcome("success", "none", {}, NoPageId)
    ELSE IF r.kind = "timeout" THEN Outcome("error", "timeout", {}, NoPageId)
         ELSE IF r.kind = "connection" THEN Outcome("error", "connection", {}, NoPageId)
         ELSE IF r.status = 200 THEN Outcome("success", "none", {}, StripHyphens(r.id))
         ELSE IF r.status \in {401, 403} THEN Outcome("error", "authentication", {}, NoPageId)
         ELSE IF r.status = 404 THEN Outcome("error", "database_not_found", {}, NoPageId)
         ELSE IF r.status = 400
              THEN IF r.code = "validation_error"
                   THEN Outcome("error", "validation", {"body"}, NoPageId)
                   ELSE Outcome("error", "bad_request", {"body"}, NoPageId)
         ELSE Outcome("error", "generic", {"status", "body"}, NoPageId)

IdleExport ==
    [pc |-> "idle", service |-> "notion_service", schema |-> NoSchema,
     supplied |-> {}, sent |-> FALSE, properties |-> NoProperties,
     reply |-> NoReply, outcome |-> NoOutcome, http |-> 0]

\* check_database_access(): GET /databases/{id}; on 200 the schema is stored,
\* otherwise save_video_to_notion returns {"error": message}.
CheckDatabaseAccess(service, access, schema) ==
    /\ export.pc = "idle"
    /\ export' = IF access
                 THEN [IdleExport EXCEPT !.pc = "checked", !.service = service,
                                         !.schema = schema]
                 ELSE [IdleExport EXCEPT !.pc = "returned", !.service = service,
                                         !.outcome = Outcome("error", "access", {}, NoPageId)]
    /\ UNCHANGED <<limiterVars, historyVars, endpointVars, storeVars, retrieverVars,
                   waitVars, sideVars, raceVars, callVars>>

\* The rest of save_video_to_notion: build `properties`, POST, classify.
SavePage(supplied, r) ==
    /\ export.pc = "checked"
    /\ IF TitleTarget(export.schema) = NoProp
       THEN export' = [export EXCEPT !.pc = "returned", !.supplied = supplied,
                                     !.outcome = Outcome("error", "no_title", {}, NoPageId)]
       ELSE export' = [export EXCEPT !.pc = "returned", !.supplied = supplied,
                                     !.sent = TRUE,
                                     !.properties = Properties(export.schema, supplied),
                                     !.reply = r,
                                     !.outcome = Classify(export.service, r)]
    /\ UNCHANGED <<limiterVars, historyVars, endpointVars, storeVars, retrieverVars,
                   waitVars, sideVars, raceVars, callVars>>

\* save_to_notion: `if "error" in result: raise HTTPException(500)`, re-raised
\* by `except HTTPException: raise`; else the success response.
SaveToNotionResponds ==
    /\ export.pc = "returned"
    /\ export' = [IdleExport EXCEPT
                     !.http = IF export.outcome.kind = "error" THEN 500 ELSE 200]
    /\ UNCHANGED <<limiterVars, historyVars, endpointVars, storeVars, retrieverVars,
                   waitVars, sideVars, raceVars, callVars>>

NotionInit == export = IdleExport

NotionNext ==
    \/ \E service \in Services, access \in BOOLEAN, schema \in Schemas :
          CheckDatabaseAccess(service, access, schema)
    \/ \E supplied \in SUBSET {"Description", "Notes"}, r \in Replies :
          SavePage(supplied, r)
    \/ SaveToNotionResponds

(***************************************************************************)
(* The LLM endpoints as sequences of events: which of them await the rate  *)
(* limiter before anthropic.messages.create.  A request's wait_if_needed   *)
(* is SpecLimiter's; here it is the one event "acquired", its return.      *)
(***************************************************************************)
LlmEndpoints == {"caption", "structured", "query", "analyze", "question"}

NeverLimited(op) == FALSE

\* The handlers with `await anthropic_rate_limiter.wait_if_needed()` before
\* their anthropic.messages.create: generate_caption_api (main.py:1105),
\* query_transcript (1336), generate_structured_caption (1544); analyze_transcript
\* (1204) and ask_question (1260) call the LLM directly.
UsesLimiter(op) == op \in {"caption", "structured", "query"}

\* What a handler checks before it goes on to the LLM: the API key for the
\* plain caption, the context for the structured one, transcript and prompt
\* for the query, nothing for the analysis and the question.
PassesChecks(op, valid) == op \in {"analyze", "question"} \/ valid

IdleCall == [pc |-> "idle", op |-> "none", events |-> <<>>, status |-> 0]

\* A request reaches one of the LLM endpoints and runs up to its first await
\* or to its LLM call.
CallArrives(c, op, valid) ==
    /\ call[c].pc = "idle"
    /\ call' = [call EXCEPT ![c] =
                  IF ~PassesChecks(op, valid)
                  THEN [IdleCall EXCEPT !.op = op,
                                        !.status = IF op = "caption" THEN 200
                                                   ELSE CaughtByExceptException(400)]
                  ELSE [IdleCall EXCEPT !.op = op,
                                        !.pc = IF UsesLimiter(op) THEN "limiter" ELSE "llm"]]
    /\ UNCHANGED <<limiterVars, historyVars, endpointVars, storeVars, retrieverVars,
                   notionVars, waitVars, sideVars, raceVars>>

\* await anthropic_rate_limiter.wait_if_needed() returns.
LimiterReturns(c) ==
    /\ call[c].pc = "limiter"
    /\ call' = [call EXCEPT ![c].pc = "llm", ![c].events = Append(@, "acquired")]
    /\ UNCHANGED <<limiterVars, historyVars, endpointVars, storeVars, retrieverVars,
                   notionVars, waitVars, sideVars, raceVars>>

\* anthropic.messages.create(...) is issued and answers or raises; the plain
\* caption turns a failure into a caption_error of a 200 response.
LlmAnswers(c, llmOk) ==
    /\ call[c].pc = "llm"
    /\ call' = [call EXCEPT ![c].pc = "idle",
                            ![c].events = Append(@, "llm"),
                            ![c].status = IF llmOk \/ call[c].op = "caption"
                                          THEN 200 ELSE 500]
    /\ UNCHANGED <<limiterVars, historyVars, endpointVars, storeVars, retrieverVars,
                   notionVars, waitVars, sideVars, raceVars>>

CallInit == call = [c \in Callers |-> IdleCall]

CallNext ==
    \/ \E c \in Callers, op \in LlmEndpoints, valid \in BOOLEAN : CallArrives(c, op, valid)
    \/ \E c \in Callers : LimiterReturns(c)
    \/ \E c \in Callers, llmOk \in BOOLEAN : LlmAnswers(c, llmOk)

(***************************************************************************)
(* The wait for the video element inside one capture attempt               *)
(* (main.py:621-658).                                                      *)
(***************************************************************************)
WaitIds == CaptureIds

WaitTimes == {1, 2}

DiagnosticBytes == <<9>>

\* f"error_{request.video_id}_{int(request.timestamp)}.png"
ErrorFileName(id, ts) == <<"error", "_">> \o id \o <<"_", DigitStr(ts), ".png">>

AlwaysReload(attempt) == TRUE

\* if attempt < 2
ReloadAfter(attempt) == attempt < ReloadsAllowed

IdleWait ==
    [pc |-> "idle", attempt |-> 0, subs |-> 0, reloads |-> 0, reloadFails |-> 0,
     diag |-> "none", id |-> <<>>, ts |-> 0]

\* The attempt has navigated to the embed page: video_element_found = False and
\* the loop `for attempt in range(3)` is entered.
WaitStart(id, ts) ==
    /\ wait.pc \in {"idle", "found", "failed"}
    /\ wait' = [IdleWait EXCEPT !.pc = "selector", !.id = id, !.ts = ts]
    /\ UNCHANGED <<limiterVars, historyVars, endpointVars, storeVars, retrieverVars,
                   notionVars, sideVars, raceVars, callVars>>

\* page.wait_for_selector('video') returns: video_element_found = True; break
SelectorFound ==
    /\ wait.pc = "selector"
    /\ wait' = [wait EXCEPT !.pc = "found", !.subs = @ + 1]
    /\ UNCHANGED <<limiterVars, historyVars, endpointVars, storeVars, retrieverVars,
                   notionVars, sideVars, raceVars, callVars>>

\* page.wait_for_selector raises: asyncio.sleep(1), then the reload if
\* attempt < 2, else the loop is over (range(3) is exhausted).
SelectorFails ==
    /\ wait.pc = "selector"
    /\ wait' = [wait EXCEPT !.subs = @ + 1,
                            !.pc = IF ReloadAfter(wait.attempt) THEN "reload"
                                   ELSE IF wait.attempt + 1 < SubAttempts THEN "selector"
                                   ELSE "diagnostic",
                            !.attempt = IF ReloadAfter(wait.attempt) THEN @ ELSE @ + 1]
    /\ UNCHANGED <<limiterVars, historyVars, endpointVars, storeVars, retrieverVars,
                   notionVars, sideVars, raceVars, callVars>>

\* page.reload(timeout=10000) and asyncio.sleep(2), or the reload raises and
\* `except Exception as reload_error` logs it; the loop goes on either way.
Reload(ok) ==
    /\ wait.pc = "reload"
    /\ wait' = [wait EXCEPT !.reloads = @ + 1,
                            !.reloadFails = IF ok THEN @ ELSE @ + 1,
                            !.attempt = @ + 1,
                            !.pc = IF wait.attempt + 1 < SubAttempts THEN "selector"
                                   ELSE "diagnostic"]
    /\ UNCHANGED <<limiterVars, historyVars, endpointVars, storeVars, retrieverVars,
                   notionVars, sideVars, raceVars, callVars>>

\* if not video_element_found: the error screenshot is taken and written, or
\* that raises and is logged; then HTTPException(500) is raised and the attempt
\* fails.
Diagnostic(ok) ==
    /\ wait.pc = "diagnostic"
    /\ wait' = [wait EXCEPT !.pc = "failed",
                            !.diag = IF ok /\ shotsDir THEN "saved" ELSE "failed"]
    /\ files' = IF ok /\ shotsDir
                THEN WriteFile(files, ErrorFileName(wait.id, wait.ts), DiagnosticBytes, today)
                ELSE files
    /\ UNCHANGED <<shotsDir, stateFile, today, lastStore, limiterVars, historyVars,
                   endpointVars, retrieverVars, notionVars, sideVars, raceVars, callVars>>

WaitInit == wait = IdleWait

WaitNext ==
    \/ \E id \in WaitIds, ts \in WaitTimes : WaitStart(id, ts)
    \/ SelectorFound
    \/ SelectorFails
    \/ \E ok \in BOOLEAN : Reload(ok)
    \/ \E ok \in BOOLEAN : Diagnostic(ok)

(***************************************************************************)
(* The side effects of a request: the history update of the video          *)
(* information, analysis and query endpoints, and the clean-up at the      *)
(* start of a capture.  A failing read or write of the history is an       *)
(* open() or json.load() that raises, and leaves the file as it was.       *)
(***************************************************************************)
IoResults == {"done", "failed"}

Surfaced(primary) == [primary EXCEPT !.status = 500, !.payload = "none"]

\* The inner `try: ... except Exception: logger.error(...)` around a side
\* effect (main.py:1421-1482, 1170-1198, 1352-1393, 568-571): the request goes
\* on to its own response.
Swallowed(primary) == primary

NoReplyYet ==
    [op |-> "none", id |-> 0, status |-> 0, primary |-> "none", payload |-> "none",
     side |-> "none"]

SideReply(op, v, primary, io) ==
    LET r == IF io = "failed" THEN Swallowed([status |-> 200, payload |-> primary])
             ELSE [status |-> 200, payload |-> primary]
    IN  [op |-> op, id |-> v, status |-> r.status, primary |-> primary,
         payload |-> r.payload, side |-> io]

\* GET /api/video-info/{video_id} when get_video_info returned the video.
VideoInfoBestEffort(v, title, io) ==
    /\ history' = IF io = "done"
                  THEN VideoInfoUpsert(history, v, title, PlainTranscript(v), hclock)
                  ELSE history
    /\ reply' = SideReply("video_info", v, title, io)
    /\ UNCHANGED <<hclock, lastOp, limiterVars, endpointVars, storeVars, retrieverVars,
                   notionVars, waitVars, raceVars, callVars>>

\* POST /api/analyze-transcript with a videoId when the LLM answered.
AnalyzeBestEffort(v, transcript, io) ==
    /\ history' = IF io = "done"
                  THEN UpdateTranscript(UpdateTranscriptAnalysis(history, v, hclock),
                                        v, transcript, hclock)
                  ELSE history
    /\ reply' = SideReply("analyze", v, "analysis", io)
    /\ UNCHANGED <<hclock, lastOp, limiterVars, endpointVars, storeVars, retrieverVars,
                   notionVars, waitVars, raceVars, callVars>>

\* POST /api/query-transcript with a videoId when the LLM answered.
QueryBestEffort(v, prompt, io) ==
    /\ \A i \in 1..Len(history) :
          history[i].videoId = v => Len(history[i].queryAnswers) < MaxAnswers
    /\ history' = IF io = "done" THEN QueryAppend(history, v, prompt, hclock) ELSE history
    /\ reply' = SideReply("query", v, "answer", io)
    /\ UNCHANGED <<hclock, lastOp, limiterVars, endpointVars, storeVars, retrieverVars,
                   notionVars, waitVars, raceVars, callVars>>

\* POST /api/capture-screenshot when cleanup_old_screenshots() raises
\* (main.py:567-571): the warning is logged and the first attempt begins.
CaptureAfterFailedCleanup(gen, ctx) ==
    /\ cap.pc = "idle"
    /\ LET r == Swallowed([status |-> 0, payload |-> "attempt"])
       IN  /\ reply' = [op |-> "capture", id |-> 0, status |-> r.status,
                        primary |-> "attempt", payload |-> r.payload, side |-> "failed"]
           /\ IF r.status = 0
              THEN /\ cap' = [pc |-> "attempt", try |-> 1, gen |-> gen, ctx |-> ctx,
                              errs |-> <<>>, pauses |-> 0]
                   /\ UNCHANGED resp
              ELSE /\ cap' = IdleCap
                   /\ resp' = [NoResp EXCEPT !.op = "capture", !.direct = FALSE,
                                             !.status = r.status, !.gen = gen]
    /\ UNCHANGED <<limiterVars, historyVars, storeVars, retrieverVars,
                   notionVars, waitVars, raceVars, callVars>>

SideInit == reply = NoReplyYet

SideNext ==
    \/ \E v \in VideoIds, title \in Titles, io \in IoResults :
          VideoInfoBestEffort(v, title, io)
    \/ \E v \in VideoIds, t \in AnalyzedTexts, io \in IoResults :
          AnalyzeBestEffort(v, t, io)
    \/ \E v \in VideoIds, q \in Prompts, io \in IoResults : QueryBestEffort(v, q, io)
    \/ \E gen \in BOOLEAN, ctx \in ContextKinds : CaptureAfterFailedCleanup(gen, ctx)

(***************************************************************************)
(* Reading the history.                                                    *)
(***************************************************************************)
\* GET /api/video-history: the entries, sorted by lastAccessedAt, newest first
GetHistory(h) == SortDesc(h)

\* GET /api/video-history/{video_id}: the entry, or 404 re-raised by
\* `except HTTPException: raise`
GetHistoryItem(h, v) ==
    LET i == FindFrom(h, v, 1)
    IN  IF i = 0 THEN [status |-> Reraised(404), title |-> NoTitle]
        ELSE [status |-> 200, title |-> h[i].title]

(***************************************************************************)
(* History requests that arrive together.  A handler is a coroutine of the *)
(* one event loop: it runs until its next await, and between the           *)
(* open(HISTORY_FILE, 'r') and the open(HISTORY_FILE, 'w') of a handler    *)
(* there is none (main.py:454-487, 1171-1193, 1352-1393, 1441-1477; the    *)
(* two update_video_history_content calls of analyze_transcript are        *)
(* awaited, but neither suspends).                                         *)
(***************************************************************************)
\* the two requests
Pair == {1, 2}

RaceKinds == {"add", "video_info", "analyze", "query"}

\* request c is about video c
RaceItem(c) ==
    [videoId |-> c, title |-> "t1", lastAccessedAt |-> NoStamp,
     transcript |-> NoText, queryAnswers |-> <<>>]

NoRequest == [kind |-> "none", state |-> "none"]

StaleRead(file, before) == before

\* The history a handler works on: what json.load(f) gives it in the step in
\* which it also writes, the file as it is now and not as it was when the
\* requests arrived.
FreshRead(file, before) == file

\* The history after the handler of a request of that kind for video v.
Mutation(kind, v, h, now) ==
    IF kind = "add" THEN AddOrUpdateResult(h, RaceItem(v), now)
    ELSE IF kind = "video_info"
         THEN VideoInfoUpsert(h, v, "t2", PlainTranscript(v), now)
    ELSE IF kind = "analyze"
         THEN UpdateTranscript(UpdateTranscriptAnalysis(h, v, now), v, "a", now)
    ELSE IF \E i \in 1..Len(h) : h[i].videoId = v /\ Len(h[i].queryAnswers) >= MaxAnswers
         THEN h
    ELSE QueryAppend(h, v, "q", now)

\* Two requests, for different videos, arrive while the event loop is busy.
Arrive(k1, k2) ==
    /\ \A c \in Pair : reqs[c].state # "pending"
    /\ reqs' = [c \in Pair |->
                  [kind |-> IF c = 1 THEN k1 ELSE k2, state |-> "pending"]]
    /\ seen' = history
    /\ UNCHANGED <<limiterVars, historyVars, endpointVars, storeVars, retrieverVars,
                   notionVars, waitVars, sideVars, callVars>>

\* The event loop runs the handler of request c: read, change, write.
Handle(c) ==
    /\ reqs[c].state = "pending"
    /\ history' = Mutation(reqs[c].kind, c, FreshRead(history, seen), hclock)
    /\ reqs' = [reqs EXCEPT ![c].state = "done"]
    /\ UNCHANGED <<hclock, lastOp, seen, limiterVars, endpointVars, storeVars,
                   retrieverVars, notionVars, waitVars, sideVars, callVars>>

RaceInit ==
    /\ reqs = [c \in Pair |-> NoRequest]
    /\ seen = <<>>

RaceNext ==
    \/ \E k1 \in RaceKinds, k2 \in RaceKinds : Arrive(k1, k2)
    \/ \E c \in Pair : Handle(c)

(***************************************************************************)
(* GET /api/transcript/{video_id} (main.py:522-551).                       *)
(***************************************************************************)
\* What a method does for the videos of the transcript endpoint: as
\* OutcomeKinds, and "empty": it builds its dict with no segment in it (the
\* library returned an empty list, the VTT file has no caption, Whisper heard
\* nothing).
TranscriptOutcomes == {"found", "empty", "nothing", "escapes"}

\* len(result['segments']) of the dict a method builds
SegmentCount(outcome) == IF outcome = "found" THEN 1 ELSE 0

\* The segments of the value the latest extract_transcript returned.
ReturnedSegments ==
    IF result.value.found THEN SegmentCount(outcomes[invoked[Len(invoked)]]) ELSE 0

\* if transcript_data and transcript_data.get('segments'): 200, else 404 (the
\* HTTPException is caught by `except Exception` and raised again as a 404)
TranscriptStatus(value, segments) ==
    IF value.found /\ segments > 0 THEN 200 ELSE 404

TranscriptNext ==
    \/ \E outs \in [Methods -> TranscriptOutcomes] : ExtractStart(TRUE, outs)
    \/ TryMethod

Init ==
    /\ LimiterInit
    /\ HistoryInit
    /\ EndpointsInit
    /\ StoreInit
    /\ RetrieverInit
    /\ NotionInit
    /\ CallInit
    /\ WaitInit
    /\ SideInit
    /\ RaceInit

SpecLimiter == Init /\ [][LimiterNext]_vars

SpecHistory == Init /\ [][HistoryNext]_vars

SpecEndpoints == Init /\ [][EndpointsNext]_vars

\* The event loop runs a capture request on: its awaits (navigation, selector
\* wait, screenshot, sleep) all end, by completion or by time-out.
SpecCaptureFair == SpecEndpoints /\ WF_vars(CaptureStep)

SpecCleanup == Init /\ [][CleanupNext]_vars

SpecState == Init /\ [][StateNext]_vars

SpecRetriever == Init /\ [][RetrieverNext]_vars

SpecNotion == Init /\ [][NotionNext]_vars

SpecCalls == Init /\ [][CallNext]_vars

SpecWait == Init /\ [][WaitNext]_vars

SpecSide == Init /\ [][SideNext]_vars

SpecRace == Init /\ [][RaceNext]_vars

SpecTranscript == Init /\ [][TranscriptNext]_vars

(***************************************************************************)
(* Properties of the rate limiter.                                         *)
(***************************************************************************)
N == MaxCallsPerMinute

\* C1: in any trailing 60-second window at most MaxCallsPerMinute callers
\* return from wait_if_needed: of MaxCallsPerMinute + 1 consecutive returns the
\* first and the last are at least a window apart.
C1_RateBound ==
    Len(admits) = N + 1 => admits[N + 1] - admits[1] >= Window

\* C2: the check-and-record step of one caller is never interleaved with that
\* of another: at most one caller is between its check and its record, it is
\* the one holding the lock, and once a caller has taken the last free slot
\* (its check found MaxCallsPerMinute - 1 recorded calls) a check at the same
\* instant finds the window full.
C2_AdmissionSerialized ==
    /\ \A c, d \in Callers : pc[c] = "sleeping" /\ pc[d] = "sleeping" => c = d
    /\ \A c \in Callers : pc[c] = "sleeping" <=> lockHolder = c
    /\ \A c \in Callers :
          /\ pc[c] = "sleeping"
          /\ lastReturn.seen = N - 1
          /\ lastReturn.now = local[c].now
          => local[c].seen >= N
    /\ lastReturn.seen = N - 1 /\ lastReturn.at = clock /\ lockHolder = NoCaller
          => Len(SelectSeq(calls, LAMBDA t : clock - t < Window)) >= N

\* Two callers checked at the same instant with one slot left: one took it and
\* returned at once, the other found the window full and is suspended, while a
\* third request may be waiting for the lock.
C2_Witness ==
    \E d \in Callers :
        /\ lastReturn.seen = N - 1 /\ lastReturn.at = lastReturn.now
        /\ pc[d] = "sleeping" /\ local[d].seen = N /\ local[d].now = lastReturn.now

\* C3: a caller whose check finds at least MaxCallsPerMinute recorded calls
\* younger than 60 s is suspended for 60 - (now - oldestRemaining) + 0.1 s and
\* does not return before that; a caller that finds fewer returns at the
\* instant of its check, without suspension.
C3_Suspension ==
    /\ \A c \in Callers :
          pc[c] = "sleeping" =>
             /\ local[c].seen >= N
             /\ \E i \in 1..Len(calls) : calls[i] = local[c].oldest
             /\ \A i \in 1..Len(calls) : calls[i] >= local[c].oldest
             /\ local[c].wake - local[c].now
                   = Window - (local[c].now - local[c].oldest) + Buffer
    /\ lastReturn.at # -1 =>
          IF lastReturn.seen >= N
          THEN /\ lastReturn.wake - lastReturn.now
                     = Window - (lastReturn.now - lastReturn.oldest) + Buffer
               /\ lastReturn.at >= lastReturn.wake
          ELSE lastReturn.wake = -1 /\ lastReturn.at = lastReturn.now

\* The sixth call of a burst that began earlier has been suspended and has
\* returned: the window was full and its oldest call was not brand new.
C3_Witness ==
    /\ lastReturn.at # -1
    /\ lastReturn.seen >= N
    /\ lastReturn.now > lastReturn.oldest
    /\ lastReturn.at >= lastReturn.wake

(***************************************************************************)
(* Properties of the video history.                                        *)
(***************************************************************************)
IndicesOf(h, v) == {i \in 1..Len(h) : h[i].videoId = v}

Min(a, b) == IF a <= b THEN a ELSE b

\* C4: no two entries of the history share a videoId, and posting an item
\* leaves at most one entry for its video id, exactly one if the id was
\* already there, bearing the posted title.
C4_HistoryKeyUnique ==
    /\ \A i, j \in 1..Len(history) : history[i].videoId = history[j].videoId => i = j
    /\ lastOp.op = "add" =>
          LET same == IndicesOf(history, lastOp.id)
          IN  /\ Cardinality(same) <= 1
              /\ lastOp.old # NoTitle => Cardinality(same) = 1
              /\ \A i \in same : history[i].title = lastOp.title

\* A video id was posted a second time with another title: one entry, the new
\* title.
C4_Witness ==
    /\ lastOp.op = "add"
    /\ lastOp.old = "t1" /\ lastOp.title = "t2"
    /\ Cardinality(IndicesOf(history, lastOp.id)) = 1
    /\ \A i \in IndicesOf(history, lastOp.id) : history[i].title = "t2"

\* C5: the history never holds more than HistoryCap entries (100 in the code),
\* and an insertion beyond the limit keeps the most recently accessed entries:
\* an insertion makes the history lose an entry only if it is full afterwards,
\* and then no entry kept is older than the one lost.
C5_HistoryCap ==
    /\ Len(history) <= HistoryCap
    /\ lastOp.cut # NoStamp =>
          /\ lastOp.op \in {"add", "video_info"}
          /\ Len(history) = HistoryCap
          /\ \A i \in 1..Len(history) : history[i].lastAccessedAt >= lastOp.cut

\* HistoryCap + 1 video ids were inserted in increasing lastAccessedAt order:
\* the latest insertion made the history lose its oldest entry and the
\* history holds the HistoryCap newest, the inserted one first.
C5_Witness ==
    /\ lastOp.op = "add" /\ lastOp.old = NoTitle /\ lastOp.cut # NoStamp
    /\ Len(history) = HistoryCap
    /\ history[1].videoId = lastOp.id
    /\ \A i \in 1..(Len(history) - 1) :
          history[i].lastAccessedAt > history[i + 1].lastAccessedAt
    /\ history[Len(history)].lastAccessedAt > lastOp.cut

\* C6: the persisted history is ordered by lastAccessedAt, newest first, after
\* every operation that writes it.
C6_SortedByLastAccess ==
    \A i \in 1..(Len(history) - 1) :
        history[i].lastAccessedAt >= history[i + 1].lastAccessedAt

\* C7: once an entry's transcript is non-empty, no operation that keeps the
\* entry changes it.
C7_TranscriptWriteOnce ==
    [][\A i \in 1..Len(history), j \in 1..Len(history') :
          /\ history[i].transcript # NoText
          /\ history'[j].videoId = history[i].videoId
          => history'[j].transcript = history[i].transcript]_vars

\* C8: every operation that keeps an entry leaves its queryAnswers as they
\* were or with new elements appended at the end.
C8_AnswersAppendOnly ==
    [][\A i \in 1..Len(history), j \in 1..Len(history') :
          history'[j].videoId = history[i].videoId
          => /\ Len(history'[j].queryAnswers) >= Len(history[i].queryAnswers)
             /\ SubSeq(history'[j].queryAnswers, 1, Len(history[i].queryAnswers))
                   = history[i].queryAnswers]_vars

\* C9: deleting an id that is not in the history answers 404 and leaves the
\* history as it was; deleting an id that is in it removes that one entry and
\* leaves the others in their order.
C9_DeleteById ==
    [][\A v \in VideoIds :
          DeleteItem(v) =>
             IF v \notin Ids(history)
             THEN lastOp'.status = 404 /\ history' = history
             ELSE /\ lastOp'.status = 200
                  /\ Len(history') = Len(history) - 1
                  /\ \E k \in 1..Len(history) :
                        /\ history[k].videoId = v
                        /\ \A i \in 1..Len(history') :
                              history'[i] = IF i < k THEN history[i]
                                            ELSE history[i + 1]]_vars

\* An id that was in the history has been deleted and other entries remain.
C9_Witness ==
    /\ lastOp.op = "delete" /\ lastOp.status = 200 /\ lastOp.old # NoTitle
    /\ lastOp.id \notin Ids(history)
    /\ Len(history) >= 1

\* C10: when the metadata lookup of GET /api/video-info yields nothing, the
\* response status is 404.
C10_VideoInfoNotFound ==
    lastOp.op = "video_info" /\ ~lastOp.ok => lastOp.status = 404

(***************************************************************************)
(* Properties of the LLM endpoints and of the screenshot capture.          *)
(***************************************************************************)
\* C11: a query whose transcript or prompt is empty is answered with status
\* 400, and the request has taken no rate-limiter slot, made no LLM call and
\* written no history.
C11_QueryInvalidInput ==
    resp.op = "query" /\ resp.invalid =>
        /\ resp.status = 400
        /\ ~resp.acquired /\ ~resp.llm /\ ~resp.wrote

\* C12: a caption endpoint called directly with an empty or blank transcript
\* context answers 400 and makes no LLM call; the placeholder sentence is in
\* the prompt only of captions made from within a capture.
C12_CaptionInvalidInput ==
    /\ resp.op \in {"caption", "structured"} /\ resp.invalid =>
          resp.status = 400 /\ ~resp.llm
    /\ resp.context = "placeholder" => resp.op = "capture"

\* What C13 says of every state: a capture never makes more than MaxRetries
\* attempts, every attempt before the current one failed and was followed by
\* one pause, and a capture's response is either a result, given by the first
\* attempt that did not fail, or the error 500 after MaxRetries failed
\* attempts, carrying the failure of the last one.
CaptureRetrySafe ==
    /\ cap.pc # "idle" =>
          /\ cap.try \in 1..MaxRetries
          /\ IF cap.pc = "pause"
             THEN /\ cap.try < MaxRetries
                  /\ Len(cap.errs) = cap.try /\ cap.pauses = cap.try - 1
             ELSE Len(cap.errs) = cap.try - 1 /\ cap.pauses = cap.try - 1
    /\ resp.op = "capture" =>
          /\ resp.attempts \in 1..MaxRetries
          /\ resp.pauses = resp.attempts - 1
          /\ IF resp.status = 200
             THEN resp.image /\ Len(resp.errs) = resp.attempts - 1
             ELSE /\ resp.status = 500 /\ ~resp.image
                  /\ resp.attempts = MaxRetries
                  /\ Len(resp.errs) = MaxRetries
                  /\ resp.detail = resp.errs[MaxRetries]

\* C13: one capture makes at most MaxRetries attempts, a failed attempt
\* k < MaxRetries is followed by a pause and attempt k + 1, a successful
\* attempt answers at once, the failure of attempt MaxRetries ends the request
\* with status 500 and that failure, and every capture ends.
C13_CaptureRetry ==
    /\ []CaptureRetrySafe
    /\ (cap.pc # "idle") ~> (cap.pc = "idle")

\* Three attempts failed, each in its own way, with a pause after the first
\* two: the request ended with the error of the third.
C13_Witness ==
    /\ resp.op = "capture" /\ resp.status = 500
    /\ resp.errs = <<"navigation", "no_video", "screenshot">>
    /\ resp.detail = "screenshot"
    /\ resp.pauses = 2

\* C14: a capture whose attempt wrote the image answers 200 with the image
\* whatever the captioning does: with caption_error set when the captioning
\* failed, and with no further attempt; with generate_caption false it takes no
\* limiter slot, makes no LLM call and answers with neither caption nor
\* caption_error.
C14_CaptionNeverFailsCapture ==
    /\ cap.pc = "caption" => cap.gen
    /\ resp.op = "capture" /\ resp.status = 200 =>
          IF resp.gen
          THEN /\ resp.image
               /\ resp.caption # "none"
               /\ resp.caption = "failed" <=> resp.error # "none"
               /\ resp.attempts = Len(resp.errs) + 1
          ELSE /\ resp.image
               /\ ~resp.acquired /\ ~resp.llm
               /\ resp.caption = "none" /\ resp.error = "none"
    /\ resp.op = "capture" /\ resp.error # "none" =>
          resp.status = 200 /\ resp.image

\* The second attempt of a capture wrote the image and the LLM call of its
\* captioning failed: the response has the image and caption_error, and there
\* was no third attempt.
C14_Witness ==
    /\ resp.op = "capture" /\ resp.status = 200 /\ resp.image
    /\ resp.gen /\ resp.error = "llm_error" /\ resp.llm
    /\ resp.attempts = 2 /\ Len(resp.errs) = 1

(***************************************************************************)
(* Properties of the screenshots directory and of the state file.          *)
(***************************************************************************)
\* The files of fs that captures of video `id` wrote.
CaptureFilesOf(fs, id) ==
    {n \in DOMAIN fs : \E c \in CaptureNames : c.id = id /\ n = CaptureFileName(c.id, c.ts)}

\* C15: a cleanup pass leaves no file yt_<videoId>_... older than MaxAgeDays
\* (7 days in the code), and of every video id it leaves exactly the files not
\* older than that if they are at most KeepPerVideo (50 in the code), else
\* exactly the KeepPerVideo newest of them.
C15_CleanupRetention ==
    [][Cleanup =>
          LET threshold == today - MaxAgeDays
          IN  /\ \A n \in DOMAIN files' : GlobYt(n) => files'[n].mtime >= threshold
              /\ \A id \in CaptureIds :
                    LET recent == {n \in CaptureFilesOf(files, id) :
                                      files[n].mtime >= threshold}
                        left == CaptureFilesOf(files', id)
                    IN  IF Cardinality(recent) <= KeepPerVideo
                        THEN left = recent
                        ELSE /\ left \subseteq recent
                             /\ Cardinality(left) = KeepPerVideo
                             /\ \A k \in left, g \in recent \ left :
                                   files[k].mtime >= files[g].mtime]_vars

\* C16: a save persists the last SaveCap (50 in the code) screenshots of the
\* document it was sent, in their order, all of them when they are at most
\* SaveCap, and the document's other top-level fields as they were sent.
C16_SaveCap ==
    lastStore.op = "save" =>
        LET sent == lastStore.sent
            kept == stateFile.doc.shots
            n == Len(sent.shots)
            k == Min(n, SaveCap)
        IN  /\ stateFile.exists
            /\ Len(kept) = k
            /\ \A i \in 1..k :
                  /\ kept[i].videoId = sent.shots[n - k + i].videoId
                  /\ kept[i].timestamp = sent.shots[n - k + i].timestamp
            /\ stateFile.doc.keys = sent.keys
            /\ stateFile.doc.other = sent.other

\* A document of SaveCap + 1 screenshots with different timestamps was saved:
\* the first was dropped, the others are persisted in their order.
C16_Witness ==
    /\ lastStore.op = "save"
    /\ Len(lastStore.sent.shots) = SaveCap + 1
    /\ \A i, j \in 1..Len(lastStore.sent.shots) :
          i # j => lastStore.sent.shots[i].timestamp # lastStore.sent.shots[j].timestamp
    /\ Len(stateFile.doc.shots) = SaveCap
    /\ \A i \in 1..SaveCap :
          stateFile.doc.shots[i].timestamp = lastStore.sent.shots[i + 1].timestamp

\* C17: after a save, a load returns every kept screenshot whose image was a
\* base64 data URI with an image that is a base64 data URI of the same bytes,
\* the persisted document holding a file name in between.
C17_StateRoundTrip ==
    lastStore.op = "save" =>
        LET sent == LastN(lastStore.sent.shots, SaveCap)
            back == LoadResult(stateFile, files)
        IN  /\ ~back.null
            /\ Len(back.doc.shots) = Len(sent)
            /\ \A i \in 1..Len(sent) :
                  sent[i].image.kind = "data" =>
                     /\ stateFile.doc.shots[i].image.kind = "file"
                     /\ back.doc.shots[i].image.kind = "data"
                     /\ B64Decode(back.doc.shots[i].image.b64)
                           = B64Decode(sent[i].image.b64)

\* C18: a soft clear leaves the screenshots directory and its files as they
\* were and, where a state was saved, makes the state file hold the empty
\* object, which is what a load then returns; it creates no state file.
C18_SoftClear ==
    [][ClearState(FALSE) =>
          /\ files' = files /\ shotsDir' = shotsDir
          /\ IF stateFile.exists
             THEN /\ stateFile' = [exists |-> TRUE, doc |-> EmptyDoc]
                  /\ LoadResult(stateFile', files') = [null |-> FALSE, doc |-> EmptyDoc]
             ELSE ~stateFile'.exists]_vars

\* A document with screenshots had been saved, its image files are still in
\* the directory, and the state file holds the empty object.
C18_Witness ==
    /\ lastStore.op = "soft_clear" /\ lastStore.hadState
    /\ \E n \in DOMAIN files : ~GlobYt(n)
    /\ stateFile.exists /\ stateFile.doc = EmptyDoc

\* C19: after a hard clear the screenshots directory exists and is empty, the
\* state file is absent, and a load answers that there is no state.
C19_HardClear ==
    lastStore.op = "hard_clear" =>
        /\ shotsDir
        /\ DOMAIN files = {}
        /\ ~stateFile.exists
        /\ LoadResult(stateFile, files).null

\* A hard clear came after a save and a capture: the directory held files of
\* both and there was a state file.
C19_Witness ==
    /\ lastStore.op = "hard_clear" /\ lastStore.hadState
    /\ \E n \in DOMAIN lastStore.before : GlobYt(n)
    /\ \E n \in DOMAIN lastStore.before : ~GlobYt(n)
    /\ DOMAIN files = {}

(***************************************************************************)
(* Properties of the transcript retriever.                                 *)
(***************************************************************************)
\* C20: extract_transcript invokes the methods in the order 1, 2, 3, 4, goes on
\* to the next one after a method that returns nothing or raises, and returns
\* the dict of the first method that builds one, with that method's
\* identifier, without invoking a later one; when none does, it returns None
\* after the fourth.
C20_WaterfallOrder ==
    /\ \A k \in 1..Len(invoked) : invoked[k] = k
    /\ \A k \in 1..(Len(invoked) - 1) : outcomes[k] # "found"
    /\ rpc = "running" => \A k \in 1..Len(invoked) : outcomes[k] # "found"
    /\ rpc = "returned" /\ result.hasId =>
          IF \E i \in Methods : outcomes[i] = "found"
          THEN LET f == CHOOSE i \in Methods :
                           /\ outcomes[i] = "found"
                           /\ \A j \in 1..(i - 1) : outcomes[j] # "found"
               IN  /\ result.value = [found |-> TRUE, method |-> MethodIds[f]]
                   /\ Len(invoked) = f
          ELSE result.value = NoTranscript /\ Len(invoked) = Len(MethodIds)

\* Method 1 met NoTranscriptFound and method 2 built a transcript: the call
\* returned it, tagged yt-dlp, and methods 3 and 4 were not invoked.
C20_Witness ==
    /\ rpc = "returned"
    /\ outcomes[1] = "no_transcript" /\ outcomes[2] = "found"
    /\ result.value = [found |-> TRUE, method |-> "yt-dlp"]
    /\ invoked = <<1, 2>>

(***************************************************************************)
(* Properties of the workspace export.                                     *)
(***************************************************************************)
ExampleSchema == [p \in {"Name", "URL"} |-> IF p = "Name" THEN "title" ELSE "url"]

\* C21: every property name of a submitted page payload is a key of the
\* database schema the call fetched, so a supplied field with no property of
\* its name is left out; for the schema {Name: title, URL: url} the payload has
\* exactly the properties Name and URL, whatever optional fields are supplied.
C21_SchemaDriven ==
    export.sent =>
        /\ DOMAIN export.properties \subseteq DOMAIN export.schema
        /\ export.schema = ExampleSchema => DOMAIN export.properties = {"Name", "URL"}

C21_Witness ==
    /\ export.sent
    /\ export.schema = ExampleSchema
    /\ export.supplied = {"Description", "Notes"}
    /\ DOMAIN export.properties = {"Name", "URL"}

\* C22: the title is written to the property named Name only if the schema
\* declares Name with the type title, otherwise to the property whose declared
\* type is title; a submitted payload has exactly one title-encoded property,
\* and the schema declares that property with the type title.
C22_TitleMapping ==
    export.sent =>
        LET titled == { p \in DOMAIN export.properties : export.properties[p] = "title" }
        IN  /\ Cardinality(titled) = 1
            /\ \A p \in titled : TypeOf(export.schema, p) = "title"

\* C23: the answer to the page creation is classified: every 2xx status is a
\* success whose page URL is the page id without its hyphens; 401 and 403 are
\* an authentication failure, 404 a database-not-found failure, 400 a
\* validation failure, any other status a generic failure that carries the
\* status and the body; a time-out and a connection error each have a reason
\* of their own.
C23_ResponseClasses ==
    export.sent =>
        LET r == export.reply
            o == export.outcome
        IN  /\ (r.kind = "http" /\ r.status \in 200..299) =>
                   o.kind = "success" /\ o.pageUrl = StripHyphens(r.id)
            /\ (r.kind = "http" /\ r.status \in {401, 403}) =>
                   o.kind = "error" /\ o.reason = "authentication"
            /\ (r.kind = "http" /\ r.status = 404) =>
                   o.kind = "error" /\ o.reason = "database_not_found"
            /\ (r.kind = "http" /\ r.status = 400) =>
                   o.kind = "error" /\ o.reason = "validation"
            /\ (r.kind = "http" /\ r.status \notin (200..299) \cup {400, 401, 403, 404}) =>
                   o.kind = "error" /\ o.reason = "generic" /\ o.carries = {"status", "body"}
            /\ r.kind = "timeout" => o.kind = "error" /\ o.reason = "timeout"
            /\ r.kind = "connection" => o.kind = "error" /\ o.reason = "connection"

(***************************************************************************)
(* Properties of the LLM endpoints' use of the limiter.                    *)
(***************************************************************************)
\* C24: every LLM request issued by the plain caption, structured caption and
\* transcript query endpoints comes after the limiter's wait of the same
\* request has returned; the requests of the transcript analysis and
\* question endpoints issue theirs without having acquired the limiter.
C24_LimiterCoverage ==
    \A c \in Callers :
        \A i \in 1..Len(call[c].events) :
            call[c].events[i] = "llm" =>
                IF call[c].op \in {"caption", "structured", "query"}
                THEN \E j \in 1..(i - 1) : call[c].events[j] = "acquired"
                ELSE /\ call[c].op \in {"analyze", "question"}
                     /\ \A j \in 1..Len(call[c].events) : call[c].events[j] # "acquired"

C24_Witness ==
    \E c, d \in Callers :
        /\ call[c].op = "query" /\ call[c].events = <<"acquired", "llm">>
        /\ call[d].op = "analyze" /\ call[d].events = <<"llm">>

(***************************************************************************)
(* Properties of the wait for the video element.                           *)
(***************************************************************************)
\* C25: inside one capture attempt the video element is waited for at most
\* SubAttempts (3) times; the page is reloaded only after the first and the
\* second failed wait, so at most twice and never after the third; a reload
\* that fails does not end the loop; a wait that succeeds ends it; when all
\* three fail a diagnostic screenshot is attempted, whatever becomes of it,
\* and the attempt fails.
C25_VideoElementWait ==
    /\ wait.subs <= 3
    /\ wait.reloads <= 2
    /\ wait.reloads <= wait.subs
    /\ wait.pc = "reload" => wait.subs \in {1, 2} /\ wait.reloads = wait.subs - 1
    /\ wait.pc = "selector" => wait.reloads = wait.subs /\ wait.diag = "none"
    /\ wait.pc = "found" => wait.diag = "none" /\ wait.reloads = wait.subs - 1
    /\ wait.pc = "diagnostic" => wait.subs = 3 /\ wait.reloads = 2 /\ wait.diag = "none"
    /\ wait.pc = "failed" =>
          wait.subs = 3 /\ wait.reloads = 2 /\ wait.diag \in {"saved", "failed"}
    /\ wait.diag = "saved" => ErrorFileName(wait.id, wait.ts) \in DOMAIN files

\* All three waits failed, both reloads failed, the diagnostic screenshot
\* failed too, and the attempt failed.
C25_Witness ==
    /\ wait.pc = "failed"
    /\ wait.subs = 3
    /\ wait.reloadFails = 2
    /\ wait.diag = "failed"

(***************************************************************************)
(* Properties of the side effects.                                         *)
(***************************************************************************)
\* C26: a side effect that fails never fails the request: when the history
\* cannot be read or written during a video information request that found
\* the video, after an analysis or after a query, the response has the status
\* and the payload it has when the update is made; when the clean-up before a
\* capture fails, the capture goes on to its first attempt.
C26_BestEffort ==
    /\ reply.op \in {"video_info", "analyze", "query"} =>
          reply.status = 200 /\ reply.payload = reply.primary
    /\ reply.op = "capture" =>
          reply.status = 0 /\ reply.payload = "attempt" /\ cap.pc = "attempt"

C26_Witness ==
    /\ reply.op = "video_info"
    /\ reply.side = "failed"
    /\ reply.status = 200
    /\ reply.payload = "t1"
    /\ history = <<>>

(***************************************************************************)
(* Further properties of the history.                                      *)
(***************************************************************************)
\* C27: after a create-or-update that answered success, the entry it names can
\* be read back: get-by-id answers 200 with the submitted entry and the list
\* contains it, whatever the history held before (a full one included) and
\* whatever lastAccessedAt was submitted.
C27_AddIsRetrievable ==
    (lastOp.op = "add" /\ lastOp.status = 200) =>
        /\ GetHistoryItem(history, lastOp.id).status = 200
        /\ GetHistoryItem(history, lastOp.id).title = lastOp.title
        /\ lastOp.id \in Ids(GetHistory(history))

C29_CleanupSpares ==
    [][Cleanup =>
          LET threshold == today - MaxAgeDays
          IN  /\ \A id \in CaptureIds :
                    Cardinality(CaptureFilesOf(files, id)) <= KeepPerVideo =>
                        \A n \in CaptureFilesOf(files, id) :
                            files[n].mtime >= threshold => n \in DOMAIN files'
              /\ \A n \in DOMAIN files :
                    ~GlobYt(n) => n \in DOMAIN files' /\ files'[n] = files[n]]_vars

(***************************************************************************)
(* Further properties of the transcript retrieval.                         *)
(***************************************************************************)
\* C30: a result returned by extract_transcript has at least one segment, a
\* method that produces no segment counting as failed, so that
\* GET /api/transcript/{videoId} answers 404 only when none of the methods
\* produces a segment for the video.
C30_SegmentsNonEmpty ==
    (rpc = "returned" /\ result.hasId) =>
        /\ result.value.found => ReturnedSegments > 0
        /\ TranscriptStatus(result.value, ReturnedSegments) = 404 =>
              \A i \in Methods : SegmentCount(outcomes[i]) = 0

====
